---- MODULE Spec2Model ----
(***************************************************************************)
(* Model of the rizzo trading agent: the decision requester and sanitizer  *)
(* (trading_agent.py), the per-ticker analysis loop (indicators.py) and    *)
(* the trading cycle with its scheduler loop (main_2.py, main.py).         *)
(*                                                                         *)
(* Python values are modelled as follows.                                  *)
(*  - A dict of the decision shape is a record with a field "keys" (the    *)
(*    set of keys the dict holds) and one field per key; the field of a    *)
(*    key the dict does not hold carries the value dict.get() returns      *)
(*    (Null) or 0 for the numeric fields, so equal dicts are equal.        *)
(*  - target_portion_of_balance and leverage are integers, reason and      *)
(*    reason_ita are represented by their length.                          *)
(*  - A provider text is a record [pre, body, post]: the characters in     *)
(*    front of the JSON chunk, the chunk, and the characters after it.     *)
(***************************************************************************)
EXTENDS Integers, Sequences, FiniteSets, TLC

\* ------------------------------------------------------------------------
\* Program constants
\* ------------------------------------------------------------------------

\* trade_schema: "minimum"/"maximum" of target_portion_of_balance
MinPortion == 0
MaxPortion == 1
\* trade_schema: "minimum"/"maximum" of leverage
MinLeverage == 1
MaxLeverage == 10
\* trade_schema: "minLength"/"maxLength" of reason
MinReasonLength == 1
MaxReasonLength == 300

\* trade_schema: enum of operation, symbol, direction
Operations == {"open", "close", "hold"}
Symbols == {"BTC", "ETH", "SOL"}
Null == "null"
Directions == {"long", "short", Null}

\* ------------------------------------------------------------------------
\* Python dicts of the decision shape
\* ------------------------------------------------------------------------

StringKeys == {"operation", "symbol", "direction"}
NumberKeys == {"target_portion_of_balance", "leverage", "reason", "reason_ita"}
AllKeys == StringKeys \cup NumberKeys

\* marker used only while enumerating inputs: the key is not in the dict
Absent == "ABSENT"
NoNum == [has |-> FALSE, v |-> 0]
Num(n) == [has |-> TRUE, v |-> n]

MkDict(op, sym, dir, tpb, lev, rsn, ita) ==
    [keys |-> {k \in StringKeys :
                  \/ k = "operation" /\ op # Absent
                  \/ k = "symbol" /\ sym # Absent
                  \/ k = "direction" /\ dir # Absent}
              \cup
              {k \in NumberKeys :
                  \/ k = "target_portion_of_balance" /\ tpb.has
                  \/ k = "leverage" /\ lev.has
                  \/ k = "reason" /\ rsn.has
                  \/ k = "reason_ita" /\ ita.has},
     operation |-> IF op = Absent THEN Null ELSE op,
     symbol |-> IF sym = Absent THEN Null ELSE sym,
     direction |-> IF dir = Absent THEN Null ELSE dir,
     target_portion_of_balance |-> tpb.v,
     leverage |-> lev.v,
     reason |-> rsn.v,
     reason_ita |-> ita.v]

\* "k" in d
HasKey(d, k) == k \in d.keys
\* d.get(k) for the string-valued keys: None when the key is missing
Get(d, k) == IF HasKey(d, k) THEN d[k] ELSE Null
\* d[k] = v
SetKey(d, k, v) == [d EXCEPT ![k] = v, !.keys = @ \cup {k}]

\* A json.loads result: a dict, or one of the values that are not a dict.
\* The field d of a non-dict is the empty dict and is never read.
EmptyDict == MkDict(Absent, Absent, Absent, NoNum, NoNum, NoNum, NoNum)
JDict(d) == [kind |-> "dict", d |-> d]
JNull == [kind |-> "null", d |-> EmptyDict]
JNumber == [kind |-> "number", d |-> EmptyDict]
JString == [kind |-> "string", d |-> EmptyDict]
JList == [kind |-> "list", d |-> EmptyDict]
NonDicts == {JNull, JNumber, JString, JList}
IsDict(x) == x.kind = "dict"

\* ------------------------------------------------------------------------
\* _sanitize_response (trading_agent.py)
\* ------------------------------------------------------------------------

\* The classes an exception of class c is an instance of (what an except
\* clause naming one of them catches): json.JSONDecodeError derives from
\* ValueError, every class from Exception.
Bases(c) ==
    IF c = "JSONDecodeError"
    THEN {"JSONDecodeError", "ValueError", "Exception"}
    ELSE {c, "Exception"}

Return(v) == [ok |-> TRUE, val |-> v, exc |-> "none"]
Raise(e) == [ok |-> FALSE, val |-> JNull, exc |-> e]

\* lines 76-85 without the elif of line 83: an explicit null is kept
EnsureDirectionKeepsNull(result) ==
    IF ~HasKey(result, "direction")
    THEN IF Get(result, "operation") = "hold"
         THEN SetKey(result, "direction", Null)
         ELSE SetKey(result, "direction", "long")
    ELSE result

\* lines 76-85: the direction default
EnsureDirection(result) ==
    IF ~HasKey(result, "direction")
    THEN IF Get(result, "operation") = "hold"
         THEN SetKey(result, "direction", Null)
         ELSE SetKey(result, "direction", "long")
    ELSE IF Get(result, "direction") = Null /\ Get(result, "operation") # "hold"
         THEN SetKey(result, "direction", "long")
         ELSE result

\* lines 87-93 without the symbol check of line 92
ValidateOperationOnly(result) ==
    IF Get(result, "operation") \notin {"open", "close", "hold"}
    THEN Raise("ValueError")
    ELSE Return(JDict(result))

\* lines 87-93: the two validations, on the dict the direction step left
ValidateOperationSymbol(result) ==
    IF Get(result, "operation") \notin {"open", "close", "hold"}
    THEN Raise("ValueError")
    ELSE IF Get(result, "symbol") \notin {"BTC", "ETH", "SOL"}
         THEN Raise("ValueError")
         ELSE Return(JDict(result))

\* What the membership test and the .get call do on a non-dict:
\* "direction" not in None / in 5 raises TypeError; on a list or a str the
\* test succeeds and the following result.get raises AttributeError.
SanitizeNonDict(x) ==
    IF x.kind \in {"null", "number"} THEN Raise("TypeError") ELSE Raise("AttributeError")

_sanitize_response(result) ==
    IF IsDict(result)
    THEN ValidateOperationSymbol(EnsureDirection(result.d))
    ELSE SanitizeNonDict(result)

\* ------------------------------------------------------------------------
\* Inputs of the sanitizer check
\* ------------------------------------------------------------------------

OperationInputs == Operations \cup {"sell", Null, Absent}
SymbolInputs == Symbols \cup {"BNB", Absent}
DirectionInputs == {"long", "short", "sideways", Null, Absent}
PortionInputs == {Num(MinPortion - 1), Num(MinPortion), Num(MaxPortion), Num(MaxPortion + 1)}
LeverageInputs == {Num(MinLeverage - 1), Num(MinLeverage), Num(MaxLeverage), Num(MaxLeverage + 1)}
ReasonInputs == {NoNum, Num(MinReasonLength - 1), Num(MinReasonLength),
                 Num(MaxReasonLength), Num(MaxReasonLength + 1)}
ReasonItaInputs == {NoNum, Num(1)}

RawResponses ==
    {MkDict(op, sym, dir, tpb, lev, rsn, ita) :
        op \in OperationInputs, sym \in SymbolInputs, dir \in DirectionInputs,
        tpb \in PortionInputs, lev \in LeverageInputs, rsn \in ReasonInputs,
        ita \in ReasonItaInputs}

\* ------------------------------------------------------------------------
\* Provider texts and their extraction (trading_agent.py)
\* ------------------------------------------------------------------------

\* A text is pre \o chunk \o post.  The chunk is the JSON document or the
\* prose the provider wrote; it begins and ends with a character that is
\* neither white space nor a character of a fence ("{", "}", a letter of
\* prose, a digit), so the prefix and suffix tests below never look into it.
\* A missing text (None) has none = TRUE.
BodyOf(v) == [valid |-> TRUE, val |-> v]
Junk == [valid |-> FALSE, val |-> JNull]
Text(pre, body, post) == [none |-> FALSE, pre |-> pre, body |-> body, post |-> post]
NoneText == [none |-> TRUE, pre |-> <<>>, body |-> Junk, post |-> <<>>]

\* white space str.strip() removes, and the part of it json.loads skips
StripWhitespace == {" ", "\n", "\f"}
JsonWhitespace == {" ", "\n"}

\* "BQ" is the backquote character
Fence == <<"BQ", "BQ", "BQ">>
FenceJson == <<"BQ", "BQ", "BQ", "j", "s", "o", "n">>

RECURSIVE LStrip(_, _)
LStrip(s, ws) == IF s # <<>> /\ Head(s) \in ws THEN LStrip(Tail(s), ws) ELSE s

RECURSIVE RStrip(_, _)
RStrip(s, ws) ==
    IF s # <<>> /\ s[Len(s)] \in ws THEN RStrip(SubSeq(s, 1, Len(s) - 1), ws) ELSE s

\* response_text.strip()
Strip(t) == [t EXCEPT !.pre = LStrip(@, StripWhitespace), !.post = RStrip(@, StripWhitespace)]

\* response_text.startswith(p), response_text.endswith(p)
StartsWith(t, p) == Len(t.pre) >= Len(p) /\ SubSeq(t.pre, 1, Len(p)) = p
EndsWith(t, p) ==
    Len(t.post) >= Len(p) /\ SubSeq(t.post, Len(t.post) - Len(p) + 1, Len(t.post)) = p

\* response_text[n:], response_text[:-n], used only after the test above
DropFirst(t, n) == [t EXCEPT !.pre = SubSeq(@, n + 1, Len(@))]
DropLast(t, n) == [t EXCEPT !.post = SubSeq(@, 1, Len(@) - n)]

\* lines 124-131 without the endswith test of line 130
StripCodeFenceKeepsClosing(response_text) ==
    LET t0 == Strip(response_text)
        t1 == IF StartsWith(t0, FenceJson) THEN DropFirst(t0, 7) ELSE t0
        t2 == IF StartsWith(t1, Fence) THEN DropFirst(t1, 3) ELSE t1
    IN t2

\* lines 124-131 and 187-193: "Remove markdown code blocks if present"
StripCodeFence(response_text) ==
    LET t0 == Strip(response_text)
        t1 == IF StartsWith(t0, FenceJson) THEN DropFirst(t0, 7) ELSE t0
        t2 == IF StartsWith(t1, Fence) THEN DropFirst(t1, 3) ELSE t1
        t3 == IF EndsWith(t2, Fence) THEN DropLast(t2, 3) ELSE t2
    IN t3

\* json.loads raising a plain ValueError where it raises JSONDecodeError
JsonLoadsPlainValueError(t) ==
    IF t.none THEN Raise("TypeError")
    ELSE IF /\ LStrip(t.pre, JsonWhitespace) = <<>>
            /\ RStrip(t.post, JsonWhitespace) = <<>>
            /\ t.body.valid
         THEN Return(t.body.val)
         ELSE Raise("ValueError")

\* json.loads: white space around the document is skipped, anything else
\* around it, or a chunk that is not JSON, is a JSONDecodeError; None is a
\* TypeError.
JsonLoads(t) ==
    IF t.none THEN Raise("TypeError")
    ELSE IF /\ LStrip(t.pre, JsonWhitespace) = <<>>
            /\ RStrip(t.post, JsonWhitespace) = <<>>
            /\ t.body.valid
         THEN Return(t.body.val)
         ELSE Raise("JSONDecodeError")

\* lines 121-132 (Perplexity)
ParsePerplexityContent(content) ==
    IF content.none THEN Raise("ValueError")
    ELSE JsonLoads(Strip(StripCodeFence(content)))

\* lines 184-194 (chat-completion fallback)
ParseFallbackContent(content) ==
    IF content.none THEN Raise("ValueError")
    ELSE JsonLoads(Strip(StripCodeFence(content)))

\* line 160 (Responses API)
ParseOutputText(output_text) == JsonLoads(output_text)

Paths == {"responses", "perplexity", "fallback"}

ParseOn(path, text) ==
    CASE path = "responses" -> ParseOutputText(text)
      [] path = "perplexity" -> ParsePerplexityContent(text)
      [] path = "fallback" -> ParseFallbackContent(text)

\* result = json.loads(...); return _sanitize_response(result)
ParseAndSanitize(path, text) ==
    LET parsed == ParseOn(path, text)
    IN IF parsed.ok THEN _sanitize_response(parsed.val) ELSE parsed

\* ------------------------------------------------------------------------
\* Inputs of the extraction check
\* ------------------------------------------------------------------------

\* longest run of white space put around a text
MaxPad == 1

RECURSIVE Pads(_)
Pads(n) ==
    IF n = 0 THEN {<<>>}
    ELSE Pads(n - 1) \cup {<<c>> \o p : c \in StripWhitespace, p \in {q \in Pads(n - 1) : Len(q) = n - 1}}

InnerPads == {<<>>, <<"\n">>}
OpeningFences == {<<>>, Fence, FenceJson}
ClosingFences == {<<>>, Fence}

Prefixes == {out \o f \o in : out \in Pads(MaxPad), f \in OpeningFences, in \in InnerPads}
Suffixes == {in \o f \o out : in \in InnerPads, f \in ClosingFences, out \in Pads(MaxPad)}

SampleHold == MkDict("hold", "BTC", Absent, Num(0), Num(1), Num(9), NoNum)
SampleOpen == MkDict("open", "ETH", "short", Num(1), Num(5), Num(16), Num(16))
SampleBodies == {BodyOf(JDict(SampleHold)), BodyOf(JDict(SampleOpen)), BodyOf(JList), Junk}

ExtractTexts ==
    {Text(pre, body, post) : pre \in Prefixes, body \in SampleBodies, post \in Suffixes}
    \cup {NoneText}

\* T wrapped in a json code fence (fence, "json", newline, T, newline,
\* fence), and T as it is
Fenced(body) == Text(FenceJson \o <<"\n">>, body, <<"\n">> \o Fence)
Bare(body) == Text(<<>>, body, <<>>)

\* ------------------------------------------------------------------------
\* Pivot points and the per-ticker analysis (indicators.py)
\* ------------------------------------------------------------------------

\* Prices are integers.  A level is kept as its numerator over the divisor
\* of line 72, so the division by three is exact as in real arithmetic;
\* the rounding of Python floats is not modelled.
PivotDivisor == 3

Levels(pp, s1, s2, r1, r2) == [pp |-> pp, s1 |-> s1, s2 |-> s2, r1 |-> r1, r2 |-> r2]
NoLevels == Levels(0, 0, 0, 0, 0)

\* lines 72-88 with an integer division in line 72
calculate_pivot_points_floor(high, low, close) ==
    LET pp == PivotDivisor * ((high + low + close) \div PivotDivisor)
    IN Levels(pp,
              2 * pp - PivotDivisor * high,
              pp - PivotDivisor * (high - low),
              2 * pp - PivotDivisor * low,
              pp + PivotDivisor * (high - low))

\* calculate_pivot_points: every level times PivotDivisor
calculate_pivot_points(high, low, close) ==
    LET pp == high + low + close
    IN Levels(pp,
              2 * pp - PivotDivisor * high,
              pp - PivotDivisor * (high - low),
              2 * pp - PivotDivisor * low,
              pp + PivotDivisor * (high - low))

\* a bar of a candle series: the columns the pivot computation reads
Bar(high, low, close) == [high |-> high, low |-> low, close |-> close]

\* What a derivatives getter hands back: a value, or an exception that
\* leaves it.
Got(v) == [raised |-> FALSE, v |-> v]
Thrown == [raised |-> TRUE, v |-> 0]

\* lines 100-105 without the try: the exception leaves the getter
get_funding_rate_unguarded(fr) == IF fr.ok THEN Got(fr.rate) ELSE Thrown

\* get_funding_rate: fetch_funding_rate(symbol)['fundingRate'], or 0.0
\* when the fetch raises
get_funding_rate(fr) == IF fr.ok THEN Got(fr.rate) ELSE Got(0)

RECURSIVE SumSeq(_)
SumSeq(q) == IF q = <<>> THEN 0 ELSE Head(q) + SumSeq(Tail(q))

\* np.mean of a non-empty list (the inputs have an integer mean)
Mean(q) == SumSeq(q) \div Len(q)

OpenInterest(latest, average) == [latest |-> latest, average |-> average]

\* get_open_interest: latest and mean of the history, or zeros when the
\* fetch raises or the history is empty
get_open_interest(oi) ==
    IF oi.ok /\ oi.hist # <<>>
    THEN Got(OpenInterest(oi.hist[Len(oi.hist)], Mean(oi.hist)))
    ELSE Got(OpenInterest(0, 0))

Snapshot(pivot, oiData, funding) ==
    [pivot_points |-> pivot,
     derivatives |-> [open_interest_latest |-> oiData.latest,
                      open_interest_average |-> oiData.average,
                      funding_rate |-> funding]]
NoSnapshot == Snapshot(NoLevels, OpenInterest(0, 0), 0)

AnReturn(snap) == [ok |-> TRUE, snap |-> snap, exc |-> "none"]
AnRaise(e) == [ok |-> FALSE, snap |-> NoSnapshot, exc |-> e]
AnPending == [ok |-> FALSE, snap |-> NoSnapshot, exc |-> "pending"]

\* lines 171-188: the bar the pivot points are computed from
PivotBar(df_daily, bar_4h) ==
    IF Len(df_daily) >= 2 THEN df_daily[Len(df_daily) - 1] ELSE bar_4h

\* get_complete_analysis: the three fetch_ohlcv calls (lines 144, 157, 173)
\* are not inside a try, so a failing one leaves the function; the 1-minute
\* and 4-hour series hold at least one bar when retrieved.
get_complete_analysis(inp) ==
    IF ~inp.m1 THEN AnRaise("NetworkError")
    ELSE IF ~inp.h4.ok THEN AnRaise("NetworkError")
    ELSE IF ~inp.d1.ok THEN AnRaise("NetworkError")
    ELSE LET b == PivotBar(inp.d1.bars, inp.h4.bar)
             pivot_points == calculate_pivot_points(b.high, b.low, b.close)
             oi_data == get_open_interest(inp.oi)
             funding_rate == get_funding_rate(inp.fr)
         IN IF oi_data.raised \/ funding_rate.raised
            THEN AnRaise("NetworkError")
            ELSE AnReturn(Snapshot(pivot_points, oi_data.v, funding_rate.v))

\* ------------------------------------------------------------------------
\* Inputs of the pivot and analysis checks
\* ------------------------------------------------------------------------

\* highest price of a bar handed to calculate_pivot_points
MaxPrice == 9

ValidBars ==
    {Bar(h, l, c) : h \in 1..MaxPrice, l \in 1..MaxPrice, c \in 1..MaxPrice}
    \cap {b \in [high : 1..MaxPrice, low : 1..MaxPrice, close : 1..MaxPrice] :
              b.low <= b.close /\ b.close <= b.high}

BarA == Bar(9, 3, 6)
BarB == Bar(6, 2, 4)
BarC == Bar(5, 5, 5)

NoBar == Bar(0, 0, 0)
Series4h == {[ok |-> TRUE, bar |-> BarA], [ok |-> TRUE, bar |-> BarC],
             [ok |-> FALSE, bar |-> NoBar]}
DailyBars == {BarB, BarC}
SeriesDaily ==
    {[ok |-> TRUE, bars |-> q] :
        q \in {<<>>} \cup {<<x>> : x \in DailyBars}
                     \cup {<<x, y>> : x \in DailyBars, y \in DailyBars}}
    \cup {[ok |-> FALSE, bars |-> <<>>]}
OpenInterestAnswers ==
    {[ok |-> TRUE, hist |-> q] : q \in {<<>>, <<2>>, <<2, 4>>, <<4, 2>>}}
    \cup {[ok |-> FALSE, hist |-> <<>>]}
FundingAnswers ==
    {[ok |-> TRUE, rate |-> r] : r \in {-1, 1}} \cup {[ok |-> FALSE, rate |-> 0]}

AnalysisInputs ==
    [m1 : BOOLEAN, h4 : Series4h, d1 : SeriesDaily, oi : OpenInterestAnswers,
     fr : FundingAnswers]

\* ------------------------------------------------------------------------
\* State
\* ------------------------------------------------------------------------

VARIABLES
    sanRaw,      \* the value handed to _sanitize_response
    sanOut,      \* its outcome, or Pending before the call
    exPath,      \* the provider path a text arrived on
    exText,      \* the text
    exOut,       \* the outcome of parsing it, or Pending
    entry,           \* the script that runs: "main" or "main_2"
    indicatorsApi,   \* what analyze_multiple_tickers returns: "text" or "pair"
    usePerplexity,   \* USE_PERPLEXITY
    pc,              \* position of the script
    cycle_count,     \* cycle_count of the main loop
    success,         \* what the last run_trading_cycle returned
    lastError,       \* the exception the cycle's handler caught
    fetched,         \* per ticker: was the 1-minute series retrieved
    indicators_txt,  \* per ticker: the block appended to full_output
    attempts,        \* the provider requests of this call, in order
    out,             \* what previsione_trading_agent returned
    executed,        \* the decisions handed to bot.execute_signal
    logged,          \* the decisions handed to db_utils.log_bot_operation
    waited,          \* seconds slept since the scheduler loop last slept
    pvIn,        \* the (high, low, close) handed to calculate_pivot_points
    pvOut,       \* the levels it returned, or NoLevels before the call
    anIn,        \* what the exchange answers during one get_complete_analysis
    anOut        \* the outcome of get_complete_analysis, or AnPending

sanVars == <<sanRaw, sanOut>>
exVars == <<exPath, exText, exOut>>
pureVars == <<pvIn, pvOut, anIn, anOut>>
configVars == <<entry, indicatorsApi, usePerplexity>>
cycleVars == <<pc, cycle_count, success, lastError, fetched, indicators_txt,
               attempts, out, executed, logged, waited>>
vars == <<sanVars, exVars, pureVars, configVars, cycleVars>>

Pending == [ok |-> FALSE, val |-> JNull, exc |-> "pending"]

\* ------------------------------------------------------------------------
\* Specification of the sanitizer alone
\* ------------------------------------------------------------------------

SanIdle ==
    /\ sanRaw = JNull
    /\ sanOut = Pending

ExIdle ==
    /\ exPath = "responses"
    /\ exText = NoneText
    /\ exOut = Pending

PureIdle ==
    /\ pvIn = NoBar
    /\ pvOut = NoLevels
    /\ anIn = [m1 |-> FALSE, h4 |-> [ok |-> FALSE, bar |-> NoBar],
               d1 |-> [ok |-> FALSE, bars |-> <<>>],
               oi |-> [ok |-> FALSE, hist |-> <<>>], fr |-> [ok |-> FALSE, rate |-> 0]]
    /\ anOut = AnPending

CycleIdle ==
    /\ entry = "main_2"
    /\ indicatorsApi = "pair"
    /\ usePerplexity = FALSE
    /\ pc = "stopped"
    /\ cycle_count = 0
    /\ success = "unset"
    /\ lastError = "none"
    /\ fetched = <<>>
    /\ indicators_txt = <<>>
    /\ attempts = <<>>
    /\ out = Pending
    /\ executed = <<>>
    /\ logged = <<>>
    /\ waited = 0

SanInit ==
    /\ sanRaw \in {JDict(d) : d \in RawResponses} \cup NonDicts
    /\ sanOut = Pending
    /\ ExIdle
    /\ PureIdle
    /\ CycleIdle

Sanitize ==
    /\ sanOut = Pending
    /\ sanOut' = _sanitize_response(sanRaw)
    /\ UNCHANGED <<sanRaw, exVars, pureVars, configVars, cycleVars>>

SanNext == Sanitize

SpecSanitize == SanInit /\ [][SanNext]_vars

\* ------------------------------------------------------------------------
\* Specification of the extraction alone
\* ------------------------------------------------------------------------

ExInit ==
    /\ exPath \in Paths
    /\ exText \in ExtractTexts
    /\ exOut = Pending
    /\ SanIdle
    /\ PureIdle
    /\ CycleIdle

Extract ==
    /\ exOut = Pending
    /\ exOut' = ParseOn(exPath, exText)
    /\ UNCHANGED <<exPath, exText, sanVars, pureVars, configVars, cycleVars>>

ExNext == Extract

SpecExtract == ExInit /\ [][ExNext]_vars

\* ------------------------------------------------------------------------
\* Specification of calculate_pivot_points alone
\* ------------------------------------------------------------------------

PivotInit ==
    /\ pvIn \in ValidBars
    /\ pvOut = NoLevels
    /\ anIn = [m1 |-> FALSE, h4 |-> [ok |-> FALSE, bar |-> NoBar],
               d1 |-> [ok |-> FALSE, bars |-> <<>>],
               oi |-> [ok |-> FALSE, hist |-> <<>>], fr |-> [ok |-> FALSE, rate |-> 0]]
    /\ anOut = AnPending
    /\ SanIdle
    /\ ExIdle
    /\ CycleIdle

CalculatePivot ==
    /\ pvOut = NoLevels
    /\ pvOut' = calculate_pivot_points(pvIn.high, pvIn.low, pvIn.close)
    /\ UNCHANGED <<pvIn, anIn, anOut, sanVars, exVars, configVars, cycleVars>>

PivotNext == CalculatePivot

SpecPivot == PivotInit /\ [][PivotNext]_vars

\* ------------------------------------------------------------------------
\* Specification of get_complete_analysis alone
\* ------------------------------------------------------------------------

AnalysisInit ==
    /\ anIn \in AnalysisInputs
    /\ anOut = AnPending
    /\ pvIn = NoBar
    /\ pvOut = NoLevels
    /\ SanIdle
    /\ ExIdle
    /\ CycleIdle

CompleteAnalysis ==
    /\ anOut = AnPending
    /\ anOut' = get_complete_analysis(anIn)
    /\ UNCHANGED <<anIn, pvIn, pvOut, sanVars, exVars, configVars, cycleVars>>

AnalysisNext == CompleteAnalysis

SpecAnalysis == AnalysisInit /\ [][AnalysisNext]_vars

\* ------------------------------------------------------------------------
\* The trading cycle (main_2.py), the one-shot script (main.py) and the
\* decision requester (trading_agent.py)
\* ------------------------------------------------------------------------

\* longest run of the scheduler loop that is explored
MaxCycles == 2

\* main_2.py line 47, main.py line 8
Tickers(e) == IF e = "main_2" THEN <<"BTC", "ETH", "SOL">> ELSE <<"BTC", "ETH", "BNB">>

\* analyze_multiple_tickers, one iteration: get_complete_analysis raises
\* when fetch_ohlcv(symbol, '1m') raises, and the loop's except clause
\* turns that into an error block of the text
AnalysisBlock(got1m) == IF got1m THEN "data" ELSE "error"

\* analyze_multiple_tickers: one block per ticker, in the order of tickers
analyze_multiple_tickers(got) == [i \in 1..Len(got) |-> AnalysisBlock(got[i])]

\* What the inputs of a cycle can be.
FetchOutcomes == [1..3 -> BOOLEAN]

CycleDecisions ==
    {MkDict(op, sym, dir, tpb, lev, rsn, ita) :
        op \in {"open", "hold", "sell"}, sym \in {"BTC", "BNB"},
        dir \in {"long", "sideways", Null, Absent},
        tpb \in {Num(MaxPortion), Num(MaxPortion + 1)},
        lev \in {Num(MinLeverage), Num(MinLeverage - 1)},
        rsn \in {NoNum, Num(MinReasonLength), Num(MaxReasonLength + 1)},
        ita \in {NoNum, Num(1)}}

CycleBodies == {BodyOf(JDict(d)) : d \in CycleDecisions} \cup {BodyOf(JList), BodyOf(JNull), Junk}
CycleTexts == {Bare(b) : b \in CycleBodies} \cup {Fenced(b) : b \in CycleBodies} \cup {NoneText}

\* exceptions a provider call (client.responses.create,
\* client.chat.completions.create) can raise: the two the fallback clause
\* names, and APIError for the SDK's timeout, connection and status errors
ProviderFailures == {"AttributeError", "TypeError", "APIError"}

\* line 162 as except AttributeError
FallbackOnAttributeErrorOnly == {"AttributeError"}
\* line 162 as except Exception
FallbackOnAnyFailure == {"AttributeError", "TypeError", "APIError"}

\* line 162: except (AttributeError, TypeError)
FallbackTriggers == {"AttributeError", "TypeError"}

\* One provider request: the API it went to, the text of the response once
\* the provider has replied, and how the attempt ended ("pending",
\* "returned" or the class of the exception that ended it).
Attempt(api) == [api |-> api, replied |-> FALSE, text |-> NoneText, ended |-> "pending"]
LastAttempt == attempts[Len(attempts)]
EndLast(replied, text, how) ==
    [attempts EXCEPT ![Len(attempts)] =
        [@ EXCEPT !.replied = replied, !.text = text, !.ended = how]]

\* An exception reaches the except clause of run_trading_cycle (lines
\* 99-116: log_error, whose own failure is swallowed, then return False);
\* in main.py nothing catches it and the script ends.
Fail(e) ==
    /\ lastError' = e
    /\ IF entry = "main_2"
       THEN /\ success' = "False"
            /\ pc' = "sleep"
       ELSE /\ success' = success
            /\ pc' = "crashed"

\* main_2.py lines 128-133: cycle_count += 1; run_trading_cycle() begins
StartCycle ==
    /\ entry = "main_2"
    /\ pc = "loop"
    /\ cycle_count < MaxCycles
    /\ cycle_count' = cycle_count + 1
    /\ pc' = "bot"
    /\ lastError' = "none"
    /\ fetched' = <<>>
    /\ indicators_txt' = <<>>
    /\ attempts' = <<>>
    /\ out' = Pending
    /\ executed' = <<>>
    /\ logged' = <<>>
    /\ waited' = 0
    /\ UNCHANGED <<success, configVars, sanVars, exVars, pureVars>>

\* main_2.py lines 40-44: HyperLiquidTrader(...)
ConstructBot ==
    /\ pc = "bot"
    /\ \E ok \in BOOLEAN :
        IF ok
        THEN /\ pc' = "analyze"
             /\ UNCHANGED <<success, lastError>>
        ELSE Fail("ExternalError")
    /\ UNCHANGED <<waited, cycle_count, fetched, indicators_txt, attempts, out, executed,
                   logged, configVars, sanVars, exVars, pureVars>>

\* main_2.py line 49 / main.py line 9: the call of analyze_multiple_tickers
\* and the assignment of its result.  The function never raises; unpacking
\* a single text into two names raises ValueError.
Analyze ==
    /\ pc = "analyze"
    /\ \E got \in FetchOutcomes :
        /\ fetched' = got
        /\ indicators_txt' = analyze_multiple_tickers(got)
    /\ IF entry = "main_2" /\ indicatorsApi = "text"
       THEN Fail("ValueError")
       ELSE /\ pc' = "feeds"
            /\ UNCHANGED <<success, lastError>>
    /\ UNCHANGED <<waited, cycle_count, attempts, out, executed, logged, configVars,
                   sanVars, exVars, pureVars>>

\* main_2.py lines 52-58 / main.py lines 10-13: news, sentiment, forecasts
GatherFeeds ==
    /\ pc = "feeds"
    /\ \E ok \in BOOLEAN :
        IF ok
        THEN /\ pc' = IF entry = "main_2" THEN "account" ELSE "request"
             /\ UNCHANGED <<success, lastError>>
        ELSE Fail("ExternalError")
    /\ UNCHANGED <<waited, cycle_count, fetched, indicators_txt, attempts, out, executed,
                   logged, configVars, sanVars, exVars, pureVars>>

\* main_2.py lines 66-74: account status, its log, the system prompt
AccountAndPrompt ==
    /\ pc = "account"
    /\ \E ok \in BOOLEAN :
        IF ok
        THEN /\ pc' = "request"
             /\ UNCHANGED <<success, lastError>>
        ELSE Fail("ExternalError")
    /\ UNCHANGED <<waited, cycle_count, fetched, indicators_txt, attempts, out, executed,
                   logged, configVars, sanVars, exVars, pureVars>>

\* trading_agent.py lines 97-99 and 134-137: the first request of a call
IssueRequest ==
    /\ pc = "request"
    /\ attempts' = <<Attempt(IF usePerplexity THEN "perplexity" ELSE "responses")>>
    /\ pc' = "await"
    /\ UNCHANGED <<waited, cycle_count, success, lastError, fetched, indicators_txt, out,
                   executed, logged, configVars, sanVars, exVars, pureVars>>

\* How an attempt that ended in exception e goes on: the Responses attempt
\* is inside the try of line 136, whose except clause issues the
\* chat-completion request (line 164); everywhere else e leaves the call.
AttemptFailed(replied, text, e) ==
    IF LastAttempt.api = "responses" /\ e \in FallbackTriggers
    THEN /\ attempts' = Append(EndLast(replied, text, e), Attempt("fallback"))
         /\ UNCHANGED <<pc, success, lastError, out>>
    ELSE /\ attempts' = EndLast(replied, text, e)
         /\ out' = Raise(e)
         /\ Fail(e)

\* the provider call raises
ProviderRaises ==
    /\ pc = "await"
    /\ \E e \in ProviderFailures : AttemptFailed(FALSE, NoneText, e)
    /\ UNCHANGED <<waited, cycle_count, fetched, indicators_txt, executed, logged,
                   configVars, sanVars, exVars, pureVars>>

\* the provider call returns a response; its text is extracted, parsed and
\* sanitized (lines 121-133, 160-161, 184-195)
ProviderReplies ==
    /\ pc = "await"
    /\ \E text \in CycleTexts :
        LET res == ParseAndSanitize(LastAttempt.api, text)
        IN IF res.ok
           THEN /\ attempts' = EndLast(TRUE, text, "returned")
                /\ out' = res
                /\ pc' = "print"
                /\ UNCHANGED <<success, lastError>>
           ELSE AttemptFailed(TRUE, text, res.exc)
    /\ UNCHANGED <<waited, cycle_count, fetched, indicators_txt, executed, logged,
                   configVars, sanVars, exVars, pureVars>>

\* main_2.py lines 79-82: out['operation'], out['symbol'], out['reason'],
\* out['reason_ita'] raise KeyError when the key is missing.
\* main.py line 34: print(out), the end of the script.
\* lines 79-81 without line 82
PrintedKeysWithoutIta == {"operation", "symbol", "reason"}

PrintedKeys == {"operation", "symbol", "reason", "reason_ita"}

PrintDecision ==
    /\ pc = "print"
    /\ IF entry = "main"
       THEN /\ pc' = "stopped"
            /\ UNCHANGED <<success, lastError>>
       ELSE IF PrintedKeys \subseteq out.val.d.keys
            THEN /\ pc' = "execute"
                 /\ UNCHANGED <<success, lastError>>
            ELSE Fail("KeyError")
    /\ UNCHANGED <<waited, cycle_count, fetched, indicators_txt, attempts, out, executed,
                   logged, configVars, sanVars, exVars, pureVars>>

\* main_2.py line 84: bot.execute_signal(out)
ExecuteSignal ==
    /\ pc = "execute"
    /\ executed' = Append(executed, out.val)
    /\ \E ok \in BOOLEAN :
        IF ok
        THEN /\ pc' = "log"
             /\ UNCHANGED <<success, lastError>>
        ELSE Fail("ExternalError")
    /\ UNCHANGED <<waited, cycle_count, fetched, indicators_txt, attempts, out, logged,
                   configVars, sanVars, exVars, pureVars>>

\* main_2.py lines 86-97: db_utils.log_bot_operation(out, ...); return True
LogOperation ==
    /\ pc = "log"
    /\ \E ok \in BOOLEAN :
        IF ok
        THEN /\ logged' = Append(logged, out.val)
             /\ success' = "True"
             /\ pc' = "sleep"
             /\ UNCHANGED lastError
        ELSE /\ logged' = logged
             /\ Fail("ExternalError")
    /\ UNCHANGED <<waited, cycle_count, fetched, indicators_txt, attempts, out, executed,
                   configVars, sanVars, exVars, pureVars>>

\* main_2.py lines 141-146: time.sleep(CYCLE_INTERVAL) ends, or is
\* interrupted from the keyboard
\* main_2.py line 21
CYCLE_INTERVAL == 9000

\* lines 135-142 with a retry at once after a failed cycle
SleepSecondsRetryAtOnce(succ) == IF succ = "True" THEN CYCLE_INTERVAL ELSE 0

\* lines 135-142: both branches of the if only print; one sleep follows
SleepSeconds(succ) == CYCLE_INTERVAL

Sleep ==
    /\ pc = "sleep"
    /\ \E interrupted \in BOOLEAN :
        IF interrupted
        THEN /\ pc' = "stopped"
             /\ waited' = waited
        ELSE /\ pc' = "loop"
             /\ waited' = SleepSeconds(success)
    /\ UNCHANGED <<cycle_count, success, lastError, fetched, indicators_txt,
                   attempts, out, executed, logged, configVars, sanVars, exVars, pureVars>>

\* main.py (line 9) takes the result of analyze_multiple_tickers as one
\* text, which is what indicators.py returns (line 337); main_2.py (line 49)
\* unpacks it into a text and a json part.  Both shapes of the result are
\* explored for main_2.py.
Init ==
    /\ entry \in {"main", "main_2"}
    /\ indicatorsApi \in {"text", "pair"}
    /\ entry = "main" => indicatorsApi = "text"
    /\ usePerplexity \in BOOLEAN
    /\ pc = IF entry = "main_2" THEN "loop" ELSE "analyze"
    /\ cycle_count = 0
    /\ success = "unset"
    /\ lastError = "none"
    /\ fetched = <<>>
    /\ indicators_txt = <<>>
    /\ attempts = <<>>
    /\ out = Pending
    /\ executed = <<>>
    /\ logged = <<>>
    /\ waited = 0
    /\ SanIdle
    /\ ExIdle
    /\ PureIdle

Next ==
    \/ StartCycle
    \/ ConstructBot
    \/ Analyze
    \/ GatherFeeds
    \/ AccountAndPrompt
    \/ IssueRequest
    \/ ProviderRaises
    \/ ProviderReplies
    \/ PrintDecision
    \/ ExecuteSignal
    \/ LogOperation
    \/ Sleep

Spec == Init /\ [][Next]_vars

\* ------------------------------------------------------------------------
\* The TradeDecision contract
\* ------------------------------------------------------------------------

DirectionConsistent(d) ==
    /\ d.operation \in {"open", "close"} =>
           HasKey(d, "direction") /\ d.direction \in {"long", "short"}
    /\ d.operation = "hold" => (~HasKey(d, "direction") \/ d.direction = Null)

InRange(d, k, lo, hi) == HasKey(d, k) /\ lo <= d[k] /\ d[k] <= hi

ValidTradeDecision(d) ==
    /\ HasKey(d, "operation") /\ d.operation \in Operations
    /\ HasKey(d, "symbol") /\ d.symbol \in Symbols
    /\ DirectionConsistent(d)
    /\ InRange(d, "target_portion_of_balance", MinPortion, MaxPortion)
    /\ InRange(d, "leverage", MinLeverage, MaxLeverage)
    /\ InRange(d, "reason", MinReasonLength, MaxReasonLength)

\* ------------------------------------------------------------------------
\* Claims
\* ------------------------------------------------------------------------

C2_NoRequestOnIncompleteSnapshot ==
    attempts # <<>> =>
        \A i \in 1..Len(fetched) : fetched[i] /\ indicators_txt[i] = "data"

\* C3: the sanitizer rejects a response whose target_portion_of_balance or
\* leverage is out of range, and what it returns carries both in range.
C3_OutOfRangeRejected ==
    (sanOut # Pending /\ IsDict(sanRaw)) =>
        /\ (~InRange(sanRaw.d, "target_portion_of_balance", MinPortion, MaxPortion)
              \/ ~InRange(sanRaw.d, "leverage", MinLeverage, MaxLeverage))
             => (~sanOut.ok /\ sanOut.exc = "ValueError")
        /\ sanOut.ok =>
             /\ InRange(sanOut.val.d, "target_portion_of_balance", MinPortion, MaxPortion)
             /\ InRange(sanOut.val.d, "leverage", MinLeverage, MaxLeverage)

\* C4: every decision the sanitizer returns has a direction of long or
\* short when the operation is open or close, and no direction or a null
\* direction when the operation is hold.
C4_DirectionInvariant ==
    sanOut.ok => DirectionConsistent(sanOut.val.d)

\* C5: for a response with a valid operation and symbol the sanitizer
\* returns a decision; its direction is null for hold without a direction,
\* long for open or close without a direction or with a null one, and the
\* response's direction otherwise; every other key is as in the response.
C5_ExpectedDirection(d) ==
    IF ~HasKey(d, "direction")
    THEN IF d.operation = "hold" THEN Null ELSE "long"
    ELSE IF d.direction = Null /\ d.operation \in {"open", "close"}
         THEN "long"
         ELSE d.direction

C5_DirectionDefaulted ==
    (/\ sanOut # Pending
     /\ IsDict(sanRaw)
     /\ HasKey(sanRaw.d, "operation") /\ sanRaw.d.operation \in Operations
     /\ HasKey(sanRaw.d, "symbol") /\ sanRaw.d.symbol \in Symbols)
    => /\ sanOut.ok
       /\ IsDict(sanOut.val)
       /\ HasKey(sanOut.val.d, "direction")
       /\ sanOut.val.d.direction = C5_ExpectedDirection(sanRaw.d)
       /\ \A k \in AllKeys \ {"direction"} :
            /\ HasKey(sanOut.val.d, k) <=> HasKey(sanRaw.d, k)
            /\ sanOut.val.d[k] = sanRaw.d[k]

C5_Witness ==
    /\ sanOut.ok
    /\ sanRaw.d.operation = "close"
    /\ HasKey(sanRaw.d, "direction") /\ sanRaw.d.direction = Null
    /\ sanOut.val.d.direction = "long"

\* C6: the sanitizer raises (ValueError, returning no decision) exactly
\* when the operation is missing or not open, close or hold, or the symbol
\* is missing or not BTC, ETH or SOL.
C6_OperationSymbolValidated ==
    (sanOut # Pending /\ IsDict(sanRaw)) =>
        LET opOk == HasKey(sanRaw.d, "operation") /\ sanRaw.d.operation \in Operations
            symOk == HasKey(sanRaw.d, "symbol") /\ sanRaw.d.symbol \in Symbols
        IN /\ sanOut.ok <=> (opOk /\ symOk)
           /\ ~sanOut.ok => (sanOut.exc = "ValueError" /\ sanOut.val = JNull)

C6_Witness ==
    /\ IsDict(sanRaw)
    /\ sanRaw.d.operation = "open"
    /\ sanRaw.d.symbol = "BNB"
    /\ sanOut = Raise("ValueError")

\* C7: when the Responses attempt ends in an AttributeError or TypeError,
\* the chat-completion request is issued; if that provider replies with a
\* decision, the call returns it sanitized; the error of a failed
\* chat-completion call is the error the call raises, and an error that
\* only a provider call raises leaves the call only when that call failed.
AttributeMismatch == {"AttributeError", "TypeError"}

C7_FallbackAfterMismatch ==
    (/\ attempts # <<>>
     /\ attempts[1].api = "responses"
     /\ attempts[1].ended \in AttributeMismatch)
    => /\ Len(attempts) = 2
       /\ attempts[2].api = "fallback"
       /\ attempts[2].ended = "returned" =>
            /\ out.ok
            /\ attempts[2].text.body.valid
            /\ IsDict(attempts[2].text.body.val)
            /\ attempts[2].text.body.val.d.operation \in Operations
            /\ attempts[2].text.body.val.d.symbol \in Symbols
            /\ \A k \in AllKeys \ {"direction"} :
                 out.val.d[k] = attempts[2].text.body.val.d[k]
            /\ out.val.d.direction = C5_ExpectedDirection(attempts[2].text.body.val.d)
       /\ (~attempts[2].replied /\ attempts[2].ended # "pending") =>
            /\ out = Raise(attempts[2].ended)
            /\ lastError = attempts[2].ended
       /\ (~out.ok /\ out.exc = "APIError") => ~attempts[2].replied

C7_Witness ==
    /\ Len(attempts) = 2
    /\ attempts[1].ended = "TypeError"
    /\ attempts[2].ended = "returned"
    /\ out.ok
    /\ out.val.d.operation = "open"

\* C8: a call makes at most one request per provider, one after the other;
\* the chat-completion fallback request exists only once the Responses
\* attempt has ended in an AttributeError or TypeError; a Responses attempt
\* that ends in another error ends the call with that error and no second
\* request; in Perplexity mode the call makes exactly one request.
C8_SequentialNoRetry ==
    /\ Len(attempts) <= 2
    /\ \A i, j \in 1..Len(attempts) : attempts[i].api = attempts[j].api => i = j
    /\ \A i \in 1..Len(attempts) : attempts[i].ended = "pending" => i = Len(attempts)
    /\ attempts # <<>> =>
         attempts[1].api = IF usePerplexity THEN "perplexity" ELSE "responses"
    /\ Len(attempts) = 2 =>
         /\ attempts[2].api = "fallback"
         /\ attempts[1].ended \in AttributeMismatch
    /\ (attempts # <<>> /\ attempts[1].ended \notin AttributeMismatch \cup {"pending", "returned"}) =>
         /\ Len(attempts) = 1
         /\ out = Raise(attempts[1].ended)
    /\ (usePerplexity /\ out # Pending) => Len(attempts) = 1

C8_Witness ==
    /\ ~usePerplexity
    /\ Len(attempts) = 1
    /\ attempts[1].ended = "APIError"
    /\ out = Raise("APIError")

\* C9 as stated: on every provider path a JSON object text wrapped in a
\* json code fence is parsed to the object the unwrapped text is parsed to,
\* and a text without a fence is parsed as it is.
IsObjectBody(b) == b.valid /\ IsDict(b.val)
OnlyJsonWhitespace(s) == \A i \in 1..Len(s) : s[i] \in JsonWhitespace

C9_FenceIgnoredOnEveryPath ==
    (exOut # Pending /\ ~exText.none /\ IsObjectBody(exText.body)) =>
        /\ exText \in {Fenced(exText.body), Bare(exText.body)} =>
             exOut = Return(exText.body.val)
        /\ (OnlyJsonWhitespace(exText.pre) /\ OnlyJsonWhitespace(exText.post)) =>
             exOut = Return(exText.body.val)

\* C9 (amended): on the Perplexity path and on the chat-completion
\* fallback path a JSON object text wrapped in a json code fence is parsed
\* to the object the unwrapped text is parsed to; on the Responses path the
\* text is parsed as received, so the unwrapped text gives the object and
\* the wrapped one a JSONDecodeError; a text without a fence is parsed as it
\* is on every path.
C9_FenceIgnoredOnChatPaths ==
    (exOut # Pending /\ ~exText.none /\ IsObjectBody(exText.body)) =>
        /\ (exPath \in {"perplexity", "fallback"}
              /\ exText \in {Fenced(exText.body), Bare(exText.body)}) =>
             exOut = Return(exText.body.val)
        /\ (exPath = "responses" /\ exText = Fenced(exText.body)) =>
             exOut = Raise("JSONDecodeError")
        /\ (OnlyJsonWhitespace(exText.pre) /\ OnlyJsonWhitespace(exText.post)) =>
             exOut = Return(exText.body.val)

C9_Witness ==
    /\ exPath = "fallback"
    /\ exText = Fenced(BodyOf(JDict(SampleOpen)))
    /\ exOut = Return(JDict(SampleOpen))

\* C10: a reply whose text is not JSON ends the call, on every path and
\* without a further request, with an error that is an instance of
\* json.JSONDecodeError; the error of a failed provider call and the error
\* of a rejection by the sanitizer are never instances of that class, so
\* an except clause naming it separates the three kinds.
MalformedKind == "JSONDecodeError"

C10_MalformedDistinct ==
    /\ \A i \in 1..Len(attempts) :
         (attempts[i].replied /\ ~attempts[i].text.none /\ ~attempts[i].text.body.valid) =>
            /\ i = Len(attempts)
            /\ MalformedKind \in Bases(attempts[i].ended)
            /\ ~out.ok /\ out.exc = attempts[i].ended
            /\ lastError = out.exc
    /\ (~out.ok /\ out # Pending /\ MalformedKind \in Bases(out.exc)) =>
         /\ LastAttempt.replied
         /\ ~LastAttempt.text.none
         /\ \/ ~LastAttempt.text.body.valid
            \/ LastAttempt.api = "responses" /\ LastAttempt.text.pre # <<>>
    /\ (~out.ok /\ out # Pending /\ ~LastAttempt.replied) =>
         MalformedKind \notin Bases(out.exc)
    /\ (~out.ok /\ out # Pending /\ LastAttempt.replied
          /\ LastAttempt.text.body.valid /\ IsDict(LastAttempt.text.body.val)
          /\ LastAttempt.text.pre = <<>>) =>
         /\ out.exc = "ValueError"
         /\ MalformedKind \notin Bases(out.exc)

C10_Witness ==
    /\ Len(attempts) = 1
    /\ attempts[1].api = "responses"
    /\ attempts[1].replied
    /\ attempts[1].text = Bare(Junk)
    /\ out = Raise("JSONDecodeError")
    /\ lastError = "JSONDecodeError"

\* C11: a failure of the funding-rate source or of the open-interest source
\* does not leave get_complete_analysis: whenever the three candle series
\* are retrieved a snapshot is returned, the fields of a failing source are
\* 0 and the fields of the other source carry what was retrieved.
C11_DerivativesDefault ==
    (anOut # AnPending /\ anIn.m1 /\ anIn.h4.ok /\ anIn.d1.ok) =>
        /\ anOut.ok
        /\ ~anIn.fr.ok => anOut.snap.derivatives.funding_rate = 0
        /\ anIn.fr.ok => anOut.snap.derivatives.funding_rate = anIn.fr.rate
        /\ ~anIn.oi.ok =>
             /\ anOut.snap.derivatives.open_interest_latest = 0
             /\ anOut.snap.derivatives.open_interest_average = 0
        /\ (anIn.oi.ok /\ anIn.oi.hist # <<>>) =>
             /\ anOut.snap.derivatives.open_interest_latest = anIn.oi.hist[Len(anIn.oi.hist)]
             /\ 2 * anOut.snap.derivatives.open_interest_average * Len(anIn.oi.hist)
                  = 2 * SumSeq(anIn.oi.hist)

C11_Witness ==
    /\ anOut.ok
    /\ ~anIn.fr.ok
    /\ anIn.oi.hist = <<2, 4>>
    /\ anOut.snap.derivatives.funding_rate = 0
    /\ anOut.snap.derivatives.open_interest_latest = 4
    /\ anOut.snap.derivatives.open_interest_average = 3

\* C12: when the 1-minute series (and the 4-hour series the fallback
\* reads) is retrieved, get_complete_analysis returns a snapshot whether or
\* not the daily series can be retrieved; its pivot points come from the
\* second-to-last daily bar when two daily bars were retrieved and from the
\* latest 4-hour bar otherwise.
C12_PivotOf(b) == b.high + b.low + b.close

C12_DailyFailureTolerated ==
    (anOut # AnPending /\ anIn.m1 /\ anIn.h4.ok) =>
        /\ anOut.ok
        /\ (anIn.d1.ok /\ Len(anIn.d1.bars) >= 2) =>
             anOut.snap.pivot_points.pp = C12_PivotOf(anIn.d1.bars[Len(anIn.d1.bars) - 1])
        /\ (~anIn.d1.ok \/ Len(anIn.d1.bars) < 2) =>
             anOut.snap.pivot_points.pp = C12_PivotOf(anIn.h4.bar)

\* C13 as stated: for low <= close <= high the levels satisfy
\* s1 < pp < r1, s2 <= s1, r2 >= r1 and pp = (high + low + close) / 3.
C13_StrictOrdering ==
    pvOut # NoLevels =>
        /\ pvOut.s1 < pvOut.pp /\ pvOut.pp < pvOut.r1
        /\ pvOut.s2 <= pvOut.s1
        /\ pvOut.r2 >= pvOut.r1
        /\ pvOut.pp = pvIn.high + pvIn.low + pvIn.close

\* C13 (amended): for low <= close <= high the levels satisfy
\* s1 <= pp <= r1, with s1 < pp < r1 when low < high, s2 <= s1, r2 >= r1
\* and pp = (high + low + close) / 3, all five from the same triple.
C13_Ordering ==
    pvOut # NoLevels =>
        /\ pvOut.s1 <= pvOut.pp /\ pvOut.pp <= pvOut.r1
        /\ pvIn.low < pvIn.high => (pvOut.s1 < pvOut.pp /\ pvOut.pp < pvOut.r1)
        /\ pvOut.s2 <= pvOut.s1
        /\ pvOut.r2 >= pvOut.r1
        /\ pvOut.pp = pvIn.high + pvIn.low + pvIn.close
        /\ pvOut.s1 + PivotDivisor * pvIn.high = 2 * pvOut.pp
        /\ pvOut.r1 + PivotDivisor * pvIn.low = 2 * pvOut.pp
        /\ pvOut.pp - pvOut.s2 = PivotDivisor * (pvIn.high - pvIn.low)
        /\ pvOut.r2 - pvOut.pp = PivotDivisor * (pvIn.high - pvIn.low)

C13_Witness ==
    /\ pvIn = Bar(5, 5, 5)
    /\ pvOut.pp = 15
    /\ pvOut.s1 = pvOut.pp
    /\ pvOut.r1 = pvOut.pp

\* C14: a cycle that fails ends with run_trading_cycle returning False to
\* the loop (the script does not end on the error); within a cycle the
\* position only advances, no stage is entered twice; and a further cycle
\* begins only after the whole sleep of CYCLE_INTERVAL seconds, after a
\* failed cycle as after a successful one.
C14_Rank(p) ==
    CASE p = "loop" -> 0
      [] p = "bot" -> 1
      [] p = "analyze" -> 2
      [] p = "feeds" -> 3
      [] p = "account" -> 4
      [] p = "request" -> 5
      [] p = "await" -> 6
      [] p = "print" -> 7
      [] p = "execute" -> 8
      [] p = "log" -> 9
      [] p = "sleep" -> 10
      [] OTHER -> 11

C14_CleanAbortNoRetry ==
    [][entry = "main_2" =>
         /\ (lastError' # "none" /\ lastError = "none") =>
               (pc' = "sleep" /\ success' = "False")
         /\ pc' # "crashed"
         /\ pc' # pc =>
               \/ C14_Rank(pc') > C14_Rank(pc)
               \/ pc = "sleep" /\ pc' = "loop"
         /\ (pc' = "loop") => (pc = "sleep" /\ waited' = CYCLE_INTERVAL)
         /\ (cycle_count' # cycle_count) =>
               /\ pc = "loop"
               /\ cycle_count' = cycle_count + 1
               /\ cycle_count >= 1 => waited = CYCLE_INTERVAL]_vars

C14_Witness ==
    /\ entry = "main_2"
    /\ pc = "loop"
    /\ cycle_count = 1
    /\ success = "False"
    /\ lastError = "JSONDecodeError"
    /\ waited = CYCLE_INTERVAL

\* C15: a decision reaches bot.execute_signal only when it holds the keys
\* operation, symbol, reason and reason_ita; a returned decision lacking
\* one of them ends the cycle with a KeyError, nothing executed and nothing
\* logged; the sanitizer adds no reason_ita.
C15_ReadKeys == {"operation", "symbol", "reason", "reason_ita"}

C15_ExecutedOnlyAfterKeysRead ==
    /\ \A i \in 1..Len(executed) : C15_ReadKeys \subseteq executed[i].d.keys
    /\ \A i \in 1..Len(logged) : C15_ReadKeys \subseteq logged[i].d.keys
    /\ (entry = "main_2" /\ out.ok /\ ~(C15_ReadKeys \subseteq out.val.d.keys)) =>
         /\ executed = <<>>
         /\ logged = <<>>
         /\ pc \in {"print", "sleep", "loop", "stopped"}
         /\ pc # "print" => (lastError = "KeyError" /\ success = "False")
    /\ out.ok =>
         ("reason_ita" \in out.val.d.keys
            <=> "reason_ita" \in LastAttempt.text.body.val.d.keys)

C15_Witness ==
    /\ entry = "main_2"
    /\ out.ok
    /\ "reason_ita" \notin out.val.d.keys
    /\ {"operation", "symbol", "reason"} \subseteq out.val.d.keys
    /\ lastError = "KeyError"
    /\ pc = "sleep"
    /\ executed = <<>>

====
